---- MODULE Spec2Model ----
(***************************************************************************)
(* Model of src/game.py: the provably-fair non-transitive dice game.       *)
(*                                                                         *)
(* The specifications share the variables below:                           *)
(*   Spec      the game, from the command line to the verdict              *)
(*   SpecLive  the game with its own steps scheduled fairly                *)
(*   SpecRng   RandomGenerator.generate_random_int called with any argument*)
(*   SpecFP    one FairPlay object and the calls its public method admits  *)
(*   SpecProb  ProbabilityCalculator.calculate_win_probabilities           *)
(*   SpecThrow DiceGame.get_throw executed several times on the same dice  *)
(*                                                                         *)
(* Strings are sequences of one-character strings, byte strings are        *)
(* sequences of numbers 0..255.  Python list index i is TLA+ index i + 1.  *)
(***************************************************************************)
EXTENDS Integers, Sequences, FiniteSets, TLC

(***************************************************************************)
(* Bounds.                                                                 *)
(***************************************************************************)

\* Bit width of one random candidate (256 in the program).
RandBits == 4

\* Number of bytes of a secret key (32 in the program).
KeyBytes == 1

\* Largest absolute value of the argument in the generate_random_int harness.
MaxRange == 6

\* Number of verify_and_get_result calls the FairPlay harness makes.
MaxCalls == 3

\* Largest contribution the FairPlay harness passes.
MaxContribution == 7

(***************************************************************************)
(* Program constants.                                                      *)
(***************************************************************************)

\* len(faces) required by Dice.__init__
NumFaces == 6

\* range_max of the move-order round, FairPlay(2)
OrderRange == 2

\* range_max of a throw round, FairPlay(6)
ThrowRange == 6

\* A variable that may be unset holds None or Some(v).
None == {}

Some(v) == {v}

IsSome(o) == o # {}

Get(o) == CHOOSE v \in o : TRUE

(***************************************************************************)
(* Python arithmetic and conversions.                                      *)
(***************************************************************************)

Pow2(n) == 2 ^ n

\* a // b, b # 0: floor division
PyFloorDiv(a, b) == a \div b

\* a % b, b # 0: the result has the sign of b
PyMod(a, b) == a - b * (a \div b)

DigitChars == <<"0", "1", "2", "3", "4", "5", "6", "7", "8", "9">>

HexChars == <<"0", "1", "2", "3", "4", "5", "6", "7", "8", "9",
              "a", "b", "c", "d", "e", "f">>

IsDigitChar(c) == \E i \in 1..10 : DigitChars[i] = c

DigitVal(c) == (CHOOSE i \in 1..10 : DigitChars[i] = c) - 1

\* str(n) for an int n
RECURSIVE PyStr(_)
PyStr(n) ==
    IF n < 0 THEN <<"-">> \o PyStr(-n)
    ELSE IF n < 10 THEN <<DigitChars[n + 1]>>
    ELSE PyStr(n \div 10) \o <<DigitChars[(n % 10) + 1]>>

\* bytes.hex()
RECURSIVE PyHex(_)
PyHex(b) ==
    IF b = <<>> THEN <<>>
    ELSE <<HexChars[(b[1] \div 16) + 1], HexChars[(b[1] % 16) + 1]>> \o PyHex(Tail(b))

\* "sup2" stands for the one character U+00B2 (superscript two): a digit for
\* str.isdigit(), not a decimal for int()
OtherDigitChars == {"sup2"}

\* the string is not empty and int() accepts each of its characters
PyIsDecimal(s) == Len(s) > 0 /\ \A i \in 1..Len(s) : IsDigitChar(s[i])

\* str.isdigit()
PyIsDigit(s) ==
    /\ Len(s) > 0
    /\ \A i \in 1..Len(s) : IsDigitChar(s[i]) \/ s[i] \in OtherDigitChars

\* int(s) for a string of decimal digits
RECURSIVE PyInt(_)
PyInt(s) ==
    IF Len(s) = 1 THEN DigitVal(s[1])
    ELSE 10 * PyInt(SubSeq(s, 1, Len(s) - 1)) + DigitVal(s[Len(s)])

\* str.lower()
LowerChar(c) == IF c = "X" THEN "x" ELSE IF c = "A" THEN "a" ELSE c

PyLower(s) == [i \in 1..Len(s) |-> LowerChar(s[i])]

\* str.strip()
RECURSIVE LStrip(_)
LStrip(s) == IF s # <<>> /\ s[1] = " " THEN LStrip(Tail(s)) ELSE s

RECURSIVE RStrip(_)
RStrip(s) ==
    IF s # <<>> /\ s[Len(s)] = " " THEN RStrip(SubSeq(s, 1, Len(s) - 1)) ELSE s

PyStrip(s) == RStrip(LStrip(s))

\* a removal that leaves the list as it is
ListKeep(l, x) == l

\* list.remove(x): removes the first occurrence
RECURSIVE ListRemove(_, _)
ListRemove(l, x) ==
    IF l = <<>> THEN <<>>
    ELSE IF l[1] = x THEN Tail(l)
    ELSE <<l[1]>> \o ListRemove(Tail(l), x)

\* x in l
InList(x, l) == \E i \in 1..Len(l) : l[i] = x

\* list(range(n))
RangeList(n) == [i \in 1..n |-> i - 1]

(***************************************************************************)
(* Inputs of the environment.                                              *)
(***************************************************************************)

\* The lines the user may type at a prompt.
Inputs ==
    { <<"0">>, <<"1">>, <<"2">>, <<"3">>, <<"5">>, <<"6">>,
      <<"x">>, <<"X">>, <<"?">>, <<" ", "4">>, <<"0", "1">>,
      <<"-", "1">>, <<"a">>, <<>>, <<"sup2">> }

\* The byte values a random byte is drawn from (a sample of 0..255).
ByteValues == {0, 171}

\* random.randbytes(n)
RECURSIVE RandomBytes(_)
RandomBytes(n) ==
    IF n = 0 THEN {<<>>}
    ELSE {<<b>> \o r : b \in ByteValues, r \in RandomBytes(n - 1)}

\* The values of generate_secure_random() used as a key
Keys == RandomBytes(KeyBytes)

\* The values of int.from_bytes(generate_secure_random(256), 'big')
Candidates == 0..(Pow2(RandBits) - 1)

\* The dice configurations of the command line, already parsed.
DiceA == <<2, 2, 4, 4, 9, 9>>
DiceB == <<1, 1, 6, 6, 8, 8>>
DiceC == <<3, 3, 5, 5, 7, 7>>
DiceD == <<1, 2, 3, 4, 5, 6>>

DiceConfigs == { <<DiceA, DiceB, DiceC>>, <<DiceD, DiceA, DiceC, DiceB>> }

\* Command lines main or DiceGame.__init__ refuses: two dice only, a die of
\* five faces, a die of seven faces.
BadConfigs ==
    { <<DiceA, DiceB>>,
      <<DiceA, <<1, 2, 3, 4, 5>>, DiceC>>,
      <<DiceA, DiceB, DiceC, <<1, 2, 3, 4, 5, 6, 7>> >> }

\* The values of sys.argv[1:]
ArgConfigs == DiceConfigs \cup BadConfigs

(***************************************************************************)
(* RandomGenerator                                                         *)
(***************************************************************************)

\* (2**256 // range_max) * range_max, range_max # 0
RejectionLimit(range_max) == PyFloorDiv(Pow2(RandBits), range_max) * range_max

\* a generator that reduces every candidate (random() % range_max)
AcceptsAnyCandidate(rand, range_max) == TRUE

\* the test of line 27
AcceptsCandidate(rand, range_max) == rand < RejectionLimit(range_max)

\* the value returned at line 28
ReduceCandidate(rand, range_max) == PyMod(rand, range_max)

\* hmac.new(key, str(message).encode(), sha3_256).hexdigest(): the digest is
\* an uninterpreted tag of the key and the encoded message (an ideal MAC).
calculate_hmac(key, message) == <<"HMAC-SHA3-256", key, PyStr(message)>>

(***************************************************************************)
(* FairPlay                                                                *)
(***************************************************************************)

\* no FairPlay object constructed yet
NoFairPlay == [id |-> 0]

\* a constructor that hands out the object of the first round again
FairPlayShared(id, range_max, key) ==
    [id |-> 1, range_max |-> range_max, secret_key |-> key]

\* FairPlay.__init__, lines 37-38: the attributes set before the call of
\* generate_random_int
FairPlayBegin(id, range_max, key) ==
    [id |-> id, range_max |-> range_max, secret_key |-> key]

\* FairPlay.__init__, lines 39-40, after generate_random_int returned number
FairPlayFinish(fp, number) ==
    [id |-> fp.id, range_max |-> fp.range_max, secret_key |-> fp.secret_key,
     computer_number |-> number,
     hmac |-> calculate_hmac(fp.secret_key, number)]

\* the constructor of the object has returned
Constructed(fp) == "hmac" \in DOMAIN fp

\* a combine that leaves the committed value out of the result
verify_ignoring_commit(fp, user_number_) ==
    [result |-> PyMod(user_number_, fp.range_max),
     key |-> fp.secret_key,
     self |-> fp]

\* a combine that first moves the committed value to where the result is 0
verify_and_rebind(fp, user_number_) ==
    [result |-> 0,
     key |-> fp.secret_key,
     self |-> [fp EXCEPT !.computer_number = PyMod(0 - user_number_, fp.range_max)]]

\* FairPlay.verify_and_get_result: the returned pair and the object after it
verify_and_get_result(fp, user_number_) ==
    [result |-> PyMod(fp.computer_number + user_number_, fp.range_max),
     key |-> fp.secret_key,
     self |-> fp]

(***************************************************************************)
(* State                                                                   *)
(***************************************************************************)

VARIABLES
    pc,               \* position of the program
    dice_list,        \* DiceGame.dice_list
    fair_play,        \* the FairPlay object of the running round
    rand,             \* the rejected candidate of generate_random_int
    user_input,       \* the last line read in start_game / get_throw
    user_number,      \* the accepted contribution of the running round
    result,           \* the combined result of the running round
    shown,            \* what the running round has printed
    nextId,           \* number of FairPlay objects constructed so far
    published,        \* ids of the objects whose digest was printed, in order
    revealed,         \* ids of the objects whose key was printed
    user_turn_first,  \* DiceGame.user_turn_first
    available_dice,   \* the list play_game passes to the choosers
    choice,           \* the last line read in user_choose_dice
    user_dice,        \* the index the user chose
    computer_dice,    \* the index the computer chose
    player,           \* argument of the running get_throw
    user_throw,       \* play_throws: user_throw
    computer_throw,   \* play_throws: computer_throw
    verdict,          \* the line play_throws printed
    exit_code,        \* argument of sys.exit
    argv,             \* sys.argv[1:], each die already split at the commas
    probabilities,    \* the table display_help printed last
    log,              \* the rounds and selections performed, in order
    range_arg,        \* harness: argument of generate_random_int
    ret,              \* harness: value returned
    raised,           \* the exception raised
    calls,            \* harness: verify_and_get_result calls on fair_play
    runs              \* harness: the executions of get_throw made so far

vars == <<pc, dice_list, fair_play, rand, user_input, user_number, result,
          shown, nextId, published, revealed, user_turn_first, available_dice,
          choice, user_dice, computer_dice, player, user_throw, computer_throw,
          verdict, exit_code, argv, probabilities, log, range_arg, ret, raised,
          calls, runs>>

roundVars == <<fair_play, rand, user_input, user_number, result, shown,
               nextId, published, revealed>>

gameVars == <<dice_list, user_turn_first, available_dice, choice, user_dice,
              computer_dice, player, user_throw, computer_throw, verdict,
              exit_code, argv, probabilities, log>>

harnessVars == <<range_arg, ret, raised, calls, runs>>

(***************************************************************************)
(* What a round prints.                                                    *)
(***************************************************************************)

NothingShown == [hmac |-> None, key |-> None, number |-> None]

\* a commit line that prints the key and the number with the digest
CommitOutputLeaky(fp) ==
    [hmac |-> Some(fp.hmac), key |-> Some(PyHex(fp.secret_key)),
     number |-> Some(fp.computer_number)]

\* lines 89 and 162: "I selected a random value ... (HMAC=...)"
CommitOutput(fp) == [hmac |-> Some(fp.hmac), key |-> None, number |-> None]

\* lines 98 and 181: "My selection: n (KEY=...)", "My number is n (KEY=...)"
RevealOutput(sh, number, key) ==
    [sh EXCEPT !.number = Some(number), !.key = Some(PyHex(key))]

\* line 92: the inputs start_game accepts
OrderChoices == << <<"0">>, <<"1">> >>

\* a menu that also accepts "6"
ThrowChoicesWide ==
    << <<"0">>, <<"1">>, <<"2">>, <<"3">>, <<"4">>, <<"5">>, <<"6">> >>

\* line 173: the inputs get_throw accepts
ThrowChoices == << <<"0">>, <<"1">>, <<"2">>, <<"3">>, <<"4">>, <<"5">> >>

\* a sum that is not reduced
ThrowResultNoMod(user_number_, computer_number) == user_number_ + computer_number

\* line 180: result = (user_number + computer_number) % 6
ThrowResult(user_number_, computer_number) ==
    PyMod(user_number_ + computer_number, 6)

\* line 185: the index of the die get_throw draws the throw from
ThrowDice(player_) == IF player_ = "user" THEN 0 ELSE 1

\* lines 153-158
Verdict(ut, ct) ==
    IF ut > ct THEN "user_wins" ELSE IF ut < ct THEN "computer_wins" ELSE "tie"

\* a branch that gives the first move to the user on result 1
UserMovesFirstOnOne(result_) == result_ = 1

\* line 100: the user makes the first move
UserMovesFirst(result_) == result_ = 0

(***************************************************************************)
(* Dice                                                                    *)
(***************************************************************************)

\* a constructor that only refuses dice of more than 6 faces
DiceAtMostSix(faces) == Len(faces) <= NumFaces

\* Dice.__init__, lines 10-11: the constructor does not raise ValueError
DiceAccepts(faces) == Len(faces) = NumFaces

\* line 191: len(sys.argv) < 4
MinDice == 3

(***************************************************************************)
(* ProbabilityCalculator                                                   *)
(***************************************************************************)

\* line 59: the divisor
PairOutcomes == 36

\* a count that takes equal faces as wins
RECURSIVE WinsOrTiesOfFace(_, _, _)
WinsOrTiesOfFace(face_i, faces_j, k) ==
    IF k = 0 THEN 0
    ELSE WinsOrTiesOfFace(face_i, faces_j, k - 1)
         + (IF face_i >= faces_j[k] THEN 1 ELSE 0)

\* lines 56-58 for one face_i: the faces of faces_j[1..k] below face_i
RECURSIVE WinsOfFace(_, _, _)
WinsOfFace(face_i, faces_j, k) ==
    IF k = 0 THEN 0
    ELSE WinsOfFace(face_i, faces_j, k - 1)
         + (IF face_i > faces_j[k] THEN 1 ELSE 0)

\* lines 54-58: win_count over faces_i[1..k] and all of faces_j
RECURSIVE WinCount(_, _, _)
WinCount(faces_i, faces_j, k) ==
    IF k = 0 THEN 0
    ELSE WinCount(faces_i, faces_j, k - 1)
         + WinsOfFace(faces_i[k], faces_j, Len(faces_j))

\* the number a / b as a fraction; the int 0 of line 49 is 0 / 1
Fraction(a, b) == [num |-> a, den |-> b]

\* a table that fills the diagonal like every other entry
calculate_without_skip(dl) ==
    [i \in 1..Len(dl) |->
        [j \in 1..Len(dl) |->
            Fraction(WinCount(dl[i], dl[j], Len(dl[i])), PairOutcomes)]]

\* ProbabilityCalculator.calculate_win_probabilities, lines 47-60
calculate_win_probabilities(dl) ==
    [i \in 1..Len(dl) |->
        [j \in 1..Len(dl) |->
            IF i # j
            THEN Fraction(WinCount(dl[i], dl[j], Len(dl[i])), PairOutcomes)
            ELSE Fraction(0, 1)]]

\* a display that sorts the dice it was given by their first face
display_help_swapping(dl) ==
    [table |-> calculate_win_probabilities(dl),
     dice_list |-> IF dl[1][1] > dl[2][1]
                   THEN [dl EXCEPT ![1] = dl[2], ![2] = dl[1]] ELSE dl]

\* CLI.display_help, lines 64-70: the table printed and the list passed by
\* reference as the call leaves it
display_help(dl) ==
    [table |-> calculate_win_probabilities(dl), dice_list |-> dl]

(***************************************************************************)
(* The game                                                                *)
(***************************************************************************)

GameIdle ==
    /\ probabilities = None
    /\ log = <<>>
    /\ user_turn_first = None
    /\ available_dice = <<>>
    /\ choice = None
    /\ user_dice = None
    /\ computer_dice = None
    /\ player = "None"
    /\ user_throw = None
    /\ computer_throw = None
    /\ verdict = "None"
    /\ exit_code = None

RoundIdle ==
    /\ rand = None
    /\ user_input = None
    /\ user_number = None
    /\ result = None
    /\ shown = NothingShown
    /\ published = <<>>
    /\ revealed = {}

HarnessIdle ==
    /\ range_arg = None
    /\ ret = None
    /\ raised = "None"
    /\ calls = 0
    /\ runs = <<>>

\* the state at line 190, before the command line is looked at
GameInit ==
    /\ pc = "main"
    /\ argv \in ArgConfigs
    /\ dice_list = <<>>
    /\ fair_play = NoFairPlay
    /\ nextId = 0
    /\ RoundIdle
    /\ GameIdle
    /\ HarnessIdle

\* lines 190-196 and DiceGame.__init__, lines 80-85: fewer than 3 dice, or a
\* ValueError of Dice.__init__, end the process with exit code 1
Main ==
    /\ pc = "main"
    /\ IF Len(argv) < MinDice \/ \E i \in 1..Len(argv) : ~DiceAccepts(argv[i])
       THEN /\ exit_code' = Some(1)
            /\ pc' = "exited"
            /\ UNCHANGED dice_list
       ELSE /\ dice_list' = argv
            /\ pc' = "start_game"
            /\ UNCHANGED exit_code
    /\ UNCHANGED roundVars
    /\ UNCHANGED <<user_turn_first, available_dice, choice, user_dice,
                   computer_dice, player, user_throw, computer_throw, verdict,
                   argv, probabilities, log>>
    /\ UNCHANGED harnessVars

\* line 88: fair_play = FairPlay(2), up to the call of generate_random_int
StartGame ==
    /\ pc = "start_game"
    /\ \E key \in Keys :
          fair_play' = FairPlayBegin(nextId + 1, OrderRange, key)
    /\ nextId' = nextId + 1
    /\ pc' = "generate"
    /\ UNCHANGED <<rand, user_input, user_number, result, shown, published,
                   revealed>>
    /\ UNCHANGED gameVars
    /\ UNCHANGED harnessVars

\* line 161: fair_play = FairPlay(6), up to the call of generate_random_int;
\* the locals of the new call of get_throw are unset
GetThrow ==
    /\ pc = "get_throw"
    /\ \E key \in Keys :
          fair_play' = FairPlayBegin(nextId + 1, ThrowRange, key)
    /\ nextId' = nextId + 1
    /\ user_input' = None
    /\ user_number' = None
    /\ result' = None
    /\ shown' = NothingShown
    /\ pc' = "generate"
    /\ UNCHANGED <<rand, published, revealed>>
    /\ UNCHANGED gameVars
    /\ UNCHANGED harnessVars

\* lines 25-28, one iteration of the loop; on return lines 40 and 89 / 162-164
GenerateRandomInt ==
    /\ pc = "generate"
    /\ \E r \in Candidates :
          IF AcceptsCandidate(r, fair_play.range_max)
          THEN /\ fair_play' = FairPlayFinish(fair_play,
                                   ReduceCandidate(r, fair_play.range_max))
               /\ shown' = CommitOutput(fair_play')
               /\ published' = Append(published, fair_play'.id)
               /\ rand' = None
               /\ pc' = IF fair_play.range_max = OrderRange
                        THEN "order_input" ELSE "throw_input"
          ELSE /\ rand' = Some(r)
               /\ UNCHANGED <<fair_play, shown, published, pc>>
    /\ UNCHANGED <<user_input, user_number, result, nextId, revealed>>
    /\ UNCHANGED gameVars
    /\ UNCHANGED harnessVars

\* lines 90-107 and 110-118 up to the first chooser
OrderInput ==
    /\ pc = "order_input"
    /\ \E line \in Inputs :
          /\ user_input' = Some(line)
          /\ IF ~InList(line, OrderChoices)
             THEN /\ exit_code' = Some(1)
                  /\ pc' = "exited"
                  /\ UNCHANGED <<fair_play, user_number, result, shown,
                                 revealed, user_turn_first, available_dice,
                                 log>>
             ELSE LET r == verify_and_get_result(fair_play, PyInt(line))
                  IN /\ user_number' = Some(PyInt(line))
                     /\ result' = Some(r.result)
                     /\ fair_play' = r.self
                     /\ shown' = RevealOutput(shown, r.self.computer_number, r.key)
                     /\ revealed' = revealed \cup {fair_play.id}
                     /\ user_turn_first' = Some(UserMovesFirst(r.result))
                     /\ available_dice' = RangeList(Len(dice_list))
                     /\ log' = Append(log, "round2")
                     /\ pc' = IF UserMovesFirst(r.result) THEN "user_choose"
                                                          ELSE "computer_choose"
                     /\ UNCHANGED exit_code
    /\ UNCHANGED <<rand, nextId, published>>
    /\ UNCHANGED <<dice_list, choice, user_dice, computer_dice, player,
                   user_throw, computer_throw, verdict, argv, probabilities>>
    /\ UNCHANGED harnessVars

\* lines 123-142, one iteration of the loop; on return line 115 or 120-121.
\* int() of a digit that is not a decimal raises ValueError, which nothing
\* catches.
UserChooseDice ==
    /\ pc = "user_choose"
    /\ \E line \in Inputs :
          /\ choice' = Some(line)
          /\ IF PyIsDigit(line) /\ ~PyIsDecimal(line)
             THEN /\ raised' = "ValueError"
                  /\ exit_code' = Some(1)
                  /\ pc' = "exited"
                  /\ UNCHANGED <<user_dice, available_dice, player, log,
                                 probabilities, dice_list>>
             ELSE IF PyIsDigit(line) /\ InList(PyInt(line), available_dice)
             THEN /\ user_dice' = Some(PyInt(line))
                  /\ available_dice' = ListRemove(available_dice, PyInt(line))
                  /\ log' = Append(log, "user_choose")
                  /\ pc' = IF Get(user_turn_first) THEN "computer_choose"
                                                   ELSE "get_throw"
                  /\ player' = IF Get(user_turn_first) THEN player ELSE "user"
                  /\ UNCHANGED <<exit_code, raised, probabilities, dice_list>>
             ELSE IF PyLower(line) = <<"?">>
             THEN /\ probabilities' = Some(display_help(dice_list).table)
                  /\ dice_list' = display_help(dice_list).dice_list
                  /\ UNCHANGED <<user_dice, available_dice, pc, player,
                                 exit_code, raised, log>>
             ELSE IF PyLower(line) = <<"x">>
             THEN /\ exit_code' = Some(0)
                  /\ pc' = "exited"
                  /\ UNCHANGED <<user_dice, available_dice, player, raised,
                                 log, probabilities, dice_list>>
             ELSE UNCHANGED <<user_dice, available_dice, pc, player, exit_code,
                              raised, log, probabilities, dice_list>>
    /\ UNCHANGED roundVars
    /\ UNCHANGED <<user_turn_first, computer_dice, user_throw, computer_throw,
                   verdict, argv>>
    /\ UNCHANGED <<range_arg, ret, calls, runs>>

\* lines 144-147; on return line 118 or 120-121
ComputerChooseDice ==
    /\ pc = "computer_choose"
    /\ \E i \in 1..Len(available_dice) :
          /\ computer_dice' = Some(available_dice[i])
          /\ available_dice' = ListRemove(available_dice, available_dice[i])
    /\ log' = Append(log, "computer_choose")
    /\ pc' = IF Get(user_turn_first) THEN "get_throw" ELSE "user_choose"
    /\ player' = IF Get(user_turn_first) THEN "user" ELSE player
    /\ UNCHANGED roundVars
    /\ UNCHANGED <<dice_list, user_turn_first, choice, user_dice, user_throw,
                   computer_throw, verdict, exit_code, argv, probabilities>>
    /\ UNCHANGED harnessVars

\* lines 166-187, one iteration of the loop; on return lines 151 or 153-158
ThrowInput ==
    /\ pc = "throw_input"
    /\ \E line \in Inputs :
          LET s == PyLower(PyStrip(line))
          IN /\ user_input' = Some(s)
             /\ IF s = <<"x">>
                THEN /\ exit_code' = Some(0)
                     /\ pc' = "exited"
                     /\ UNCHANGED <<user_number, result, shown, revealed, player,
                                    user_throw, computer_throw, verdict, log,
                                    probabilities, dice_list>>
                ELSE IF s = <<"?">>
                THEN /\ probabilities' = Some(display_help(dice_list).table)
                     /\ dice_list' = display_help(dice_list).dice_list
                     /\ UNCHANGED <<user_number, result, shown, revealed, player,
                                    user_throw, computer_throw, verdict, pc,
                                    exit_code, log>>
                ELSE IF ~InList(s, ThrowChoices)
                THEN UNCHANGED <<user_number, result, shown, revealed, player,
                                 user_throw, computer_throw, verdict, pc,
                                 exit_code, log, probabilities, dice_list>>
                ELSE /\ user_number' = Some(PyInt(s))
                     /\ result' = Some(ThrowResult(PyInt(s),
                                                   fair_play.computer_number))
                     /\ shown' = RevealOutput(shown, fair_play.computer_number,
                                              fair_play.secret_key)
                     /\ revealed' = revealed \cup {fair_play.id}
                     /\ log' = Append(log, IF player = "user"
                                           THEN "round6_user"
                                           ELSE "round6_computer")
                     /\ \E f \in 1..Len(dice_list[ThrowDice(player) + 1]) :
                          LET throw == dice_list[ThrowDice(player) + 1][f]
                          IN IF player = "user"
                             THEN /\ user_throw' = Some(throw)
                                  /\ player' = "computer"
                                  /\ pc' = "get_throw"
                                  /\ UNCHANGED <<computer_throw, verdict>>
                             ELSE /\ computer_throw' = Some(throw)
                                  /\ verdict' = Verdict(Get(user_throw), throw)
                                  /\ pc' = "done"
                                  /\ UNCHANGED <<user_throw, player>>
                     /\ UNCHANGED <<exit_code, probabilities, dice_list>>
    /\ UNCHANGED <<fair_play, rand, nextId, published>>
    /\ UNCHANGED <<user_turn_first, available_dice, choice, user_dice,
                   computer_dice, argv>>
    /\ UNCHANGED harnessVars

Next ==
    \/ Main
    \/ StartGame
    \/ GenerateRandomInt
    \/ OrderInput
    \/ UserChooseDice
    \/ ComputerChooseDice
    \/ GetThrow
    \/ ThrowInput

Spec == GameInit /\ [][Next]_vars

(***************************************************************************)
(* RandomGenerator.generate_random_int called with any argument            *)
(***************************************************************************)

\* the arguments the harness passes
RangeArgs == (-MaxRange)..MaxRange

RngInit ==
    /\ pc = "rng_call"
    /\ range_arg \in {Some(r) : r \in RangeArgs}
    /\ ret = None
    /\ raised = "None"
    /\ calls = 0
    /\ runs = <<>>
    /\ fair_play = NoFairPlay
    /\ nextId = 0
    /\ dice_list \in DiceConfigs
    /\ argv = <<>>
    /\ RoundIdle
    /\ GameIdle

\* lines 25-28, one iteration of the loop: 2**256 // 0 raises
\* ZeroDivisionError, an accepted candidate is returned reduced, a rejected
\* one is redrawn
RngDraw ==
    /\ pc \in {"rng_call", "rng_loop"}
    /\ \E r \in Candidates :
          /\ rand' = Some(r)
          /\ IF Get(range_arg) = 0
             THEN /\ raised' = "ZeroDivisionError"
                  /\ pc' = "rng_raised"
                  /\ UNCHANGED ret
             ELSE IF AcceptsCandidate(r, Get(range_arg))
             THEN /\ ret' = Some(ReduceCandidate(r, Get(range_arg)))
                  /\ pc' = "rng_returned"
                  /\ UNCHANGED raised
             ELSE /\ pc' = "rng_loop"
                  /\ UNCHANGED <<ret, raised>>
    /\ UNCHANGED <<fair_play, user_input, user_number, result, shown, nextId,
                   published, revealed>>
    /\ UNCHANGED gameVars
    /\ UNCHANGED <<range_arg, calls, runs>>

RngNext == RngDraw

SpecRng == RngInit /\ [][RngNext]_vars

(***************************************************************************)
(* One FairPlay object and the calls of its method                         *)
(***************************************************************************)

\* the objects FairPlay(2) and FairPlay(6) construct
FairPlayObjects ==
    { FairPlayFinish(FairPlayBegin(1, m, key), ReduceCandidate(r, m)) :
        <<m, key, r>> \in { t \in {OrderRange, ThrowRange} \X Keys \X Candidates :
                              AcceptsCandidate(t[3], t[1]) } }

\* the contributions the harness passes
Contributions == (-1)..MaxContribution

FPInit ==
    /\ pc = "fp_committed"
    /\ fair_play \in FairPlayObjects
    /\ nextId = 1
    /\ calls = 0
    /\ range_arg = None
    /\ ret = None
    /\ raised = "None"
    /\ runs = <<>>
    /\ dice_list \in DiceConfigs
    /\ argv = <<>>
    /\ RoundIdle
    /\ GameIdle

\* lines 42-44: a caller holding the object calls verify_and_get_result(n)
VerifyAndGetResult ==
    /\ pc \in {"fp_committed", "fp_revealed"}
    /\ calls < MaxCalls
    /\ \E n \in Contributions :
          LET r == verify_and_get_result(fair_play, n)
          IN /\ user_number' = Some(n)
             /\ result' = Some(r.result)
             /\ ret' = Some(<<r.result, r.key>>)
             /\ fair_play' = r.self
    /\ calls' = calls + 1
    /\ pc' = "fp_revealed"
    /\ UNCHANGED <<rand, user_input, shown, nextId, published, revealed>>
    /\ UNCHANGED gameVars
    /\ UNCHANGED <<range_arg, raised, runs>>

FPNext == VerifyAndGetResult

SpecFP == FPInit /\ [][FPNext]_vars

(***************************************************************************)
(* ProbabilityCalculator.calculate_win_probabilities called on any dice    *)
(***************************************************************************)

DiceE == <<-1, 0, 0, 3, 3, 3>>

\* the dice the harness builds its lists from
DicePool == {DiceA, DiceB, DiceC, DiceD, DiceE}

\* the lists the harness passes: every list of three dice of the pool, and
\* the lists of the game
ProbDiceLists ==
    {<<a, b, c>> : a \in DicePool, b \in DicePool, c \in DicePool}
        \cup DiceConfigs

ProbInit ==
    /\ pc = "prob_call"
    /\ dice_list \in ProbDiceLists
    /\ argv = <<>>
    /\ fair_play = NoFairPlay
    /\ nextId = 0
    /\ RoundIdle
    /\ GameIdle
    /\ HarnessIdle

\* lines 47-60: a caller passes dice_list and keeps the table
CalculateWinProbabilities ==
    /\ pc = "prob_call"
    /\ probabilities' = Some(calculate_win_probabilities(dice_list))
    /\ pc' = "prob_returned"
    /\ UNCHANGED roundVars
    /\ UNCHANGED <<dice_list, user_turn_first, available_dice, choice,
                   user_dice, computer_dice, player, user_throw,
                   computer_throw, verdict, exit_code, argv, log>>
    /\ UNCHANGED harnessVars

ProbNext == CalculateWinProbabilities

SpecProb == ProbInit /\ [][ProbNext]_vars

(***************************************************************************)
(* Properties                                                              *)
(***************************************************************************)

\* the round is blocked in input(), waiting for the contribution
Waiting == pc \in {"order_input", "throw_input"}

\* the line s denotes an integer in [0, range_max)
IsContribution(s, range_max) ==
    /\ PyIsDecimal(PyStrip(s))
    /\ PyInt(PyStrip(s)) \in 0..(range_max - 1)

\* C1: in the move-order round and in each throw round the digest is printed
\* before a contribution is accepted, and the key and the committed value are
\* printed only after one was accepted: while the round waits for its
\* contribution (and while it is still drawing its number) neither the key
\* nor the committed value has been shown.
C1_CommitBeforeReveal ==
    /\ pc = "generate" => shown = NothingShown /\ user_number = None
    /\ Waiting =>
          /\ Constructed(fair_play)
          /\ shown.hmac = Some(fair_play.hmac)
          /\ shown.key = None
          /\ shown.number = None
          /\ user_number = None
    /\ (IsSome(shown.key) \/ IsSome(shown.number)) =>
          /\ IsSome(user_number)
          /\ IsSome(shown.hmac)

C1_Witness ==
    /\ pc = "get_throw"
    /\ player = "computer"
    /\ IsSome(shown.hmac)
    /\ IsSome(shown.key)
    /\ IsSome(user_number)

\* C2: whenever a round has computed its result, range_max R is 2 or 6, the
\* committed value and the accepted contribution lie in [0, R), and the result
\* is (committed value + contribution) mod R, a value of [0, R); with R = 6,
\* committed value 4 and contribution 3 the result is 1.
C2_CombinedResult ==
    IsSome(result) =>
        LET R == fair_play.range_max
            cv == fair_play.computer_number
            c == Get(user_number)
        IN /\ R \in {2, 6}
           /\ cv \in 0..(R - 1)
           /\ c \in 0..(R - 1)
           /\ Get(result) = (cv + c) % R
           /\ Get(result) \in 0..(R - 1)
           /\ (R = 6 /\ cv = 4 /\ c = 3) => Get(result) = 1

C2_Witness ==
    /\ IsSome(result)
    /\ fair_play.range_max = 6
    /\ fair_play.computer_number = 4
    /\ user_number = Some(3)
    /\ result = Some(1)

\* the result verify_and_get_result gives for contribution c when the object
\* fp had committed to the value v
CombineOf(fp, v, c) ==
    verify_and_get_result([fp EXCEPT !.computer_number = v], c).result

\* C3: for the range_max R (2 or 6) of a FairPlay object and every fixed
\* contribution c of [0, R), the map committed value |-> combined result is a
\* bijection on [0, R): every result of [0, R) comes from exactly one
\* committed value.
C3_CombineBijection ==
    LET R == fair_play.range_max
    IN /\ R \in {2, 6}
       /\ \A c \in 0..(R - 1) :
             /\ \A v \in 0..(R - 1) : CombineOf(fair_play, v, c) \in 0..(R - 1)
             /\ \A res \in 0..(R - 1) :
                   Cardinality({v \in 0..(R - 1) :
                                   CombineOf(fair_play, v, c) = res}) = 1

C3_Witness ==
    /\ pc = "fp_revealed"
    /\ fair_play.range_max = 6
    /\ user_number = Some(5)
    /\ result = Some(0)

\* C4, state part: the digest of a constructed FairPlay object is the HMAC of
\* its key and the decimal string of its number; the digest printed is this
\* digest, and the key and number printed at reveal are those of the object,
\* so that every key with the printed hex form recomputes the printed digest.
C4_Binding ==
    Constructed(fair_play) =>
        /\ fair_play.hmac =
              calculate_hmac(fair_play.secret_key, fair_play.computer_number)
        /\ IsSome(shown.hmac) => shown.hmac = Some(fair_play.hmac)
        /\ IsSome(shown.key) =>
              /\ shown.key = Some(PyHex(fair_play.secret_key))
              /\ shown.number = Some(fair_play.computer_number)
              /\ \A k \in Keys :
                    PyHex(k) = Get(shown.key) =>
                        calculate_hmac(k, Get(shown.number)) = Get(shown.hmac)

\* C4, step part: no step changes an attribute of a constructed object.
C4_Frozen ==
    (Constructed(fair_play) /\ fair_play'.id = fair_play.id) =>
        fair_play' = fair_play

\* C4: from the construction of a FairPlay round until its reveal secret_key,
\* computer_number and hmac are never changed and
\* hmac = HMAC(secret_key, str(computer_number)) holds in every state; the key
\* and value shown at reveal recompute to the digest published at commit.
C4_CommitmentBinds == []C4_Binding /\ [][C4_Frozen]_vars

C4_Witness ==
    /\ pc = "done"
    /\ IsSome(shown.key)
    /\ shown.hmac = Some(calculate_hmac(fair_play.secret_key, 5))
    /\ fair_play.secret_key[1] = 171
    /\ shown.number = Some(5)

IsExitCommand(s) == PyLower(PyStrip(s)) = <<"x">>

\* C6: in the rangeMax 2 round and in the rangeMax 6 rounds alike a malformed
\* or out-of-range contribution is recoverable: the step that reads it leaves
\* the round waiting for a contribution, with the same key, committed value
\* and published digest; the round is not aborted.
C6_RejectedInputRetries ==
    [][ ( /\ Waiting
          /\ user_input' # user_input
          /\ ~IsContribution(Get(user_input'), fair_play.range_max)
          /\ ~IsExitCommand(Get(user_input')) )
        => ( /\ pc' = pc
             /\ fair_play' = fair_play
             /\ shown' = shown
             /\ exit_code' = None ) ]_vars

\* C7: a FairPlay round is single-shot: once it has been revealed, no further
\* call on the same object yields another result and key.
C7_SingleShot ==
    [][ pc = "fp_revealed" => (calls' = calls /\ ret' = ret /\ result' = result) ]_vars

\* the ids in the sequence ids are pairwise different
Distinct(ids) ==
    \A i, j \in 1..Len(ids) : i # j => ids[i] # ids[j]

\* C8: every round of play has its own FairPlay object: the digests published
\* so far come from pairwise different objects, the object of a round that
\* waits for its contribution is the one that published last and its key has
\* not been revealed, and a completed game has used three different objects.
C8_OwnInstancePerRound ==
    /\ Distinct(published)
    /\ Waiting =>
          /\ published # <<>>
          /\ published[Len(published)] = fair_play.id
          /\ fair_play.id \notin revealed
    /\ pc = "generate" => fair_play.id \notin revealed
    /\ pc = "done" =>
          /\ Len(published) = 3
          /\ Cardinality({published[i] : i \in 1..Len(published)}) = 3
          /\ revealed = {published[i] : i \in 1..Len(published)}

C8_Witness ==
    /\ pc = "done"
    /\ Len(published) = 3
    /\ Cardinality(revealed) = 3

\* the candidates generate_random_int(range_max) accepts and reduces to res
AcceptedFor(range_max, res) ==
    {c \in Candidates :
        AcceptsCandidate(c, range_max) /\ ReduceCandidate(c, range_max) = res}

\* C9: for range_max > 0 generate_random_int returns a value of [0, range_max)
\* by rejection sampling over a RandBits-bit candidate: the candidate returned
\* from is below floor(2^RandBits / range_max) * range_max, a candidate that
\* is redrawn is not, the value returned is candidate mod range_max, and every
\* residue of [0, range_max) has the same number of accepted candidates.
C9_RejectionSampling ==
    LET R == Get(range_arg)
        limit == (Pow2(RandBits) \div R) * R
    IN R > 0 =>
        /\ pc # "rng_raised"
        /\ pc = "rng_returned" =>
              /\ Get(rand) < limit
              /\ Get(ret) = Get(rand) % R
              /\ Get(ret) \in 0..(R - 1)
        /\ pc = "rng_loop" => Get(rand) >= limit
        /\ \A c \in Candidates : AcceptsCandidate(c, R) <=> c < limit
        /\ \A r1, r2 \in 0..(R - 1) :
              Cardinality(AcceptedFor(R, r1)) = Cardinality(AcceptedFor(R, r2))
        /\ \A r1 \in 0..(R - 1) : AcceptedFor(R, r1) # {}

C9_Witness ==
    /\ pc = "rng_returned"
    /\ range_arg = Some(6)
    /\ rand = Some(11)
    /\ ret = Some(5)

\* C10: generate_random_int with range_max <= 0 returns no value and signals
\* the invalid-range error.
C10_InvalidRange ==
    Get(range_arg) <= 0 =>
        /\ ret = None
        /\ pc \notin {"rng_call", "rng_loop"} => raised = "InvalidRange"

\* C11: a die whose face sequence has not exactly 6 entries is never
\* constructed, and it is fatal to the construction of the game: every die of
\* dice_list has exactly 6 faces, and when some die of the command line has
\* another length the program gets no further than its exit with code 1: no
\* dice list, no published digest, no die chosen.
C11_InvalidDieIsFatal ==
    /\ \A i \in 1..Len(dice_list) : Len(dice_list[i]) = 6
    /\ (\E i \in 1..Len(argv) : Len(argv[i]) # 6) =>
          /\ pc \in {"main", "exited"}
          /\ pc = "exited" => exit_code = Some(1)
          /\ dice_list = <<>>
          /\ published = <<>>
          /\ shown = NothingShown
          /\ user_dice = None
          /\ computer_dice = None

C11_Witness ==
    /\ pc = "exited"
    /\ exit_code = Some(1)
    /\ Len(argv) >= 3
    /\ \E i \in 1..Len(argv) : Len(argv[i]) = 5

\* the face pairings of two dice
FacePairs == (1..6) \X (1..6)

\* the pairings in which the face of die fi exceeds the face of die fj
Wins(fi, fj) == Cardinality({p \in FacePairs : fi[p[1]] > fj[p[2]]})

\* the pairings in which the two faces are equal
Ties(fi, fj) == Cardinality({p \in FacePairs : fi[p[1]] = fj[p[2]]})

\* C12: calculate_win_probabilities returns an n x n table; for i # j the
\* entry [i][j] is (number of the 36 pairings in which a face of die i
\* strictly exceeds a face of die j) / 36, every diagonal entry is 0, every
\* entry lies in [0, 1], and an entry depends only on the faces of its two
\* dice, not on where they stand in the list.
C12_WinProbabilities ==
    pc = "prob_returned" =>
        LET m == Get(probabilities)
            n == Len(dice_list)
        IN /\ Len(m) = n
           /\ \A i \in 1..n : Len(m[i]) = n
           /\ \A i, j \in 1..n :
                 /\ m[i][j].den > 0
                 /\ 0 <= m[i][j].num
                 /\ m[i][j].num <= m[i][j].den
                 /\ i = j => m[i][j].num = 0
                 /\ i # j =>
                       m[i][j].num * 36 = Wins(dice_list[i], dice_list[j]) * m[i][j].den
           /\ \A i, j, k, l \in 1..n :
                 (i # j /\ k # l /\ dice_list[i] = dice_list[k]
                        /\ dice_list[j] = dice_list[l]) => m[i][j] = m[k][l]

C12_Witness ==
    /\ pc = "prob_returned"
    /\ dice_list = <<DiceD, DiceA, DiceD>>
    /\ Get(probabilities)[1][2] = Fraction(12, 36)
    /\ Get(probabilities)[3][2] = Fraction(12, 36)
    /\ Get(probabilities)[1][1] = Fraction(0, 1)

\* C13: for distinct positions i, j the entries [i][j] and [j][i] and the
\* tie mass add up to 1: 36 * [i][j] + 36 * [j][i] + ties(i, j) = 36; when
\* the two dice share no face value [j][i] = 1 - [i][j]; and for
\* A = [2,2,4,4,9,9], B = [1,1,6,6,8,8], C = [3,3,5,5,7,7] the entries
\* [A][B], [B][C], [C][A] are all above 1/2.
C13_TieMassAndCycle ==
    pc = "prob_returned" =>
        LET m == Get(probabilities)
            n == Len(dice_list)
        IN /\ \A i, j \in 1..n :
                 i # j =>
                    /\ m[i][j].den = 36
                    /\ m[j][i].den = 36
                    /\ m[i][j].num + m[j][i].num
                          + Ties(dice_list[i], dice_list[j]) = 36
                    /\ Ties(dice_list[i], dice_list[j]) = 0 =>
                          m[j][i].num = m[i][j].den - m[i][j].num
           /\ dice_list = << <<2, 2, 4, 4, 9, 9>>, <<1, 1, 6, 6, 8, 8>>,
                             <<3, 3, 5, 5, 7, 7>> >> =>
                 /\ 2 * m[1][2].num > m[1][2].den
                 /\ 2 * m[2][3].num > m[2][3].den
                 /\ 2 * m[3][1].num > m[3][1].den

C13_Witness ==
    /\ pc = "prob_returned"
    /\ dice_list = <<DiceA, DiceB, DiceC>>
    /\ Get(probabilities)[1][2].num = 20
    /\ Get(probabilities)[2][1].num = 16
    /\ Get(probabilities)[3][1].num = 20

\* the dice selection phase of play_game is running
Choosing == pc \in {"user_choose", "computer_choose"}

\* C14: the rangeMax 2 round decides who selects a die first: the user
\* chooses first iff its combined result is 0 and the computer iff it is 1
\* (committed 1 and contribution 0 give result 1 and the computer first), and
\* the second chooser picks after the first: when the second chooser is at
\* its turn the first has chosen, and the first is at its turn before the
\* second has chosen.
C14_MoveOrder ==
    /\ Choosing =>
          /\ fair_play.range_max = 2
          /\ result \in {Some(0), Some(1)}
          /\ Get(user_turn_first) <=> Get(result) = 0
          /\ ~Get(user_turn_first) <=> Get(result) = 1
          /\ (fair_play.computer_number = 1 /\ user_number = Some(0)) =>
                (Get(result) = 1 /\ ~Get(user_turn_first)
                                 /\ (pc = "user_choose" => IsSome(computer_dice)))
    /\ (pc = "user_choose" /\ Get(user_turn_first)) =>
          (user_dice = None /\ computer_dice = None)
    /\ (pc = "computer_choose" /\ Get(user_turn_first)) =>
          (IsSome(user_dice) /\ computer_dice = None)
    /\ (pc = "computer_choose" /\ ~Get(user_turn_first)) =>
          (user_dice = None /\ computer_dice = None)
    /\ (pc = "user_choose" /\ ~Get(user_turn_first)) =>
          (IsSome(computer_dice) /\ user_dice = None)
    /\ Len(log) >= 2 =>
          log[2] = (IF Get(user_turn_first) THEN "user_choose"
                                            ELSE "computer_choose")
    /\ Len(log) >= 3 =>
          log[3] = (IF Get(user_turn_first) THEN "computer_choose"
                                            ELSE "user_choose")

C14_Witness ==
    /\ pc = "user_choose"
    /\ fair_play.computer_number = 1
    /\ user_number = Some(0)
    /\ result = Some(1)
    /\ user_turn_first = Some(FALSE)
    /\ IsSome(computer_dice)

\* C15: after construction no step of the game (a die selection by either
\* player, the help display, a fair-exchange round, a throw) changes the
\* faces of a die or the contents or order of the dice list.
C15_DiceImmutable == [][pc # "main" => dice_list' = dice_list]_vars

\* a finished game in which the help table was displayed on the way
C15_Witness ==
    /\ pc = "done"
    /\ IsSome(probabilities)
    /\ IsSome(user_dice) /\ IsSome(computer_dice)
    /\ dice_list = argv
    /\ Len(dice_list) >= MinDice

(***************************************************************************)
(* DiceGame.get_throw called several times on the same dice                *)
(***************************************************************************)

\* Number of executions of get_throw the harness compares.
MaxRuns == 2

\* the lines the loop of lines 166-176 leaves with
AcceptedThrowLines ==
    {line \in Inputs : InList(PyLower(PyStrip(line)), ThrowChoices)}

ThrowInit ==
    /\ pc = "throw_call"
    /\ dice_list \in DiceConfigs
    /\ argv = <<>>
    /\ fair_play = NoFairPlay
    /\ nextId = 0
    /\ RoundIdle
    /\ GameIdle
    /\ HarnessIdle

\* lines 160-187: one execution of get_throw(p) that returns; runs records
\* the player, the combined result of line 180 and the throw of line 185
GetThrowRun ==
    /\ pc = "throw_call"
    /\ Len(runs) < MaxRuns
    /\ \E p \in {"user", "computer"}, line \in AcceptedThrowLines,
          computer_number \in 0..(ThrowRange - 1) :
          LET un == PyInt(PyLower(PyStrip(line)))
              faces == dice_list[ThrowDice(p) + 1]
          IN \E f \in 1..Len(faces) :
                runs' = Append(runs, [player |-> p,
                                      result |-> ThrowResult(un, computer_number),
                                      throw |-> faces[f]])
    /\ UNCHANGED <<pc, range_arg, ret, raised, calls>>
    /\ UNCHANGED roundVars
    /\ UNCHANGED gameVars

ThrowNext == GetThrowRun

SpecThrow == ThrowInit /\ [][ThrowNext]_vars

\* C16: two executions of get_throw for the same player and the same dice
\* that end with the same combined result report the same throw.
C16_ResultDeterminesThrow ==
    \A i, j \in 1..Len(runs) :
        (runs[i].player = runs[j].player /\ runs[i].result = runs[j].result)
            => runs[i].throw = runs[j].throw

\* C17: the throw reported for a player is a face of the die this player
\* selected in the dice selection phase: the user's throw of the die chosen
\* in user_choose_dice, the computer's of the die chosen in
\* computer_choose_dice.
C17_ThrowOfSelectedDie ==
    /\ IsSome(user_throw) =>
          InList(Get(user_throw), dice_list[Get(user_dice) + 1])
    /\ IsSome(computer_throw) =>
          InList(Get(computer_throw), dice_list[Get(computer_dice) + 1])

\* the dice the two players hold
ChosenDice == user_dice \cup computer_dice

\* the list is strictly increasing
Increasing(l) == \A i, j \in 1..Len(l) : i < j => l[i] < l[j]

\* the available set is all dice but the chosen ones
C18_Available ==
    IsSome(user_turn_first) =>
        /\ {available_dice[i] : i \in 1..Len(available_dice)}
              = (0..(Len(dice_list) - 1)) \ ChosenDice
        /\ Increasing(available_dice)
        /\ ChosenDice \subseteq 0..(Len(dice_list) - 1)
        /\ (IsSome(user_dice) /\ IsSome(computer_dice)) =>
              user_dice # computer_dice

\* a chooser picks one of the dice available at its turn, and a step that
\* selects nothing (an invalid line, '?', a round, a throw) leaves the
\* available set as it is
C18_Step ==
    /\ user_dice' # user_dice =>
          (InList(Get(user_dice'), available_dice) /\ computer_dice' = computer_dice)
    /\ computer_dice' # computer_dice =>
          (InList(Get(computer_dice'), available_dice) /\ user_dice' = user_dice)
    /\ (pc \in {"user_choose", "computer_choose"}
          /\ user_dice' = user_dice /\ computer_dice' = computer_dice) =>
          available_dice' = available_dice

\* C18: after the dice selection phase, whichever player chose first, the
\* user and the computer hold two different dice, each a valid index of the
\* dice list; a die is removed from the available set exactly when it is
\* chosen, the second chooser only picks from the dice the first chooser
\* left, and invalid or help inputs in user_choose_dice leave the available
\* set unchanged.
C18_Selection == []C18_Available /\ [][C18_Step]_vars

\* the computer chose first, the user asked for help and then chose
C18_Witness ==
    /\ pc = "get_throw"
    /\ user_turn_first = Some(FALSE)
    /\ IsSome(probabilities)
    /\ IsSome(user_dice) /\ IsSome(computer_dice)
    /\ user_dice # computer_dice
    /\ Len(available_dice) = Len(dice_list) - 2
    /\ Len(dice_list) = 4

(***************************************************************************)
(* The game under fair scheduling of the program's own steps               *)
(***************************************************************************)

\* line 28 is reached: a candidate below the limit is drawn (rejection
\* sampling ends with probability 1)
AcceptingDraw == GenerateRandomInt /\ pc' # "generate"

\* the steps that wait for nothing but the interpreter
SpecLive ==
    /\ Spec
    /\ WF_vars(Main)
    /\ WF_vars(StartGame)
    /\ WF_vars(AcceptingDraw)
    /\ WF_vars(ComputerChooseDice)
    /\ WF_vars(GetThrow)

\* the steps in which the user supplies a valid input at a prompt
ValidOrderInput == OrderInput /\ pc' # "exited"

ValidDiceChoice == UserChooseDice /\ user_dice' # user_dice

ValidThrowInput == ThrowInput /\ user_number' # user_number

\* at each prompt the user eventually supplies a valid input
UserSuppliesValidInputs ==
    /\ WF_vars(ValidOrderInput)
    /\ WF_vars(ValidDiceChoice)
    /\ WF_vars(ValidThrowInput)

\* the orders of the steps of a game that ends in a verdict
GameLogs ==
    { <<"round2", "user_choose", "computer_choose",
        "round6_user", "round6_computer">>,
      <<"round2", "computer_choose", "user_choose",
        "round6_user", "round6_computer">> }

IsPrefix(s, t) == Len(s) <= Len(t) /\ s = SubSeq(t, 1, Len(s))

\* the rounds come in the order of a game, a game that is over made exactly
\* three rounds, and the one verdict is the comparison of the two throws
C19_Rounds ==
    /\ \E g \in GameLogs : IsPrefix(log, g)
    /\ verdict # "None" <=> pc = "done"
    /\ pc = "done" =>
          /\ log \in GameLogs
          /\ Len(published) = 3 /\ Cardinality(revealed) = 3
          /\ verdict \in {"user_wins", "computer_wins", "tie"}
          /\ verdict = "user_wins" <=> Get(user_throw) > Get(computer_throw)
          /\ verdict = "computer_wins" <=> Get(user_throw) < Get(computer_throw)
          /\ verdict = "tie" <=> Get(user_throw) = Get(computer_throw)

\* the process ended before any prompt, or on the exit command of the user
EndedWithoutGame ==
    pc = "exited" /\ (dice_list = <<>> \/ exit_code = Some(0))

====
